---- MODULE Spec2Model ----
(***************************************************************************)
(* PortraitGeneratorApp (src/index.tsx): the sliding-window rate limiter   *)
(* over persisted generation timestamps, its countdown timer, and the      *)
(* generation retry loop with cooperative cancellation, as one state       *)
(* machine.  One action is one run-to-completion job of the browser's      *)
(* event loop: a DOM event handler, a timer callback, or the continuation  *)
(* of an awaited remote call.                                              *)
(***************************************************************************)
EXTENDS Integers, Sequences, FiniteSets, TLC

(***************************************************************************)
(* Program constants.                                                      *)
(***************************************************************************)
RATE_LIMIT_WINDOW_MS == 10 * 60 * 1000

RATE_LIMIT_MAX_GENERATIONS == 5

MAX_ATTEMPTS == 5

(***************************************************************************)
(* Bounds of the model.                                                    *)
(***************************************************************************)
\* The clock takes the values 0, W, ..., MaxTick*W, where W is the window.
MaxTick == 1

\* Sessions (runs of generateSingleView) that can be suspended at an await
\* at the same time.
MaxSessions == 2

\* Pending setTimeout(loadRateLimitData) callbacks.
MaxPending == 1

\* Length of the stored arrays of timestamps that loads are tried on.
MaxStored == 3

Times == {k * RATE_LIMIT_WINDOW_MS : k \in 0..MaxTick}

Slots == 1..MaxSessions

(***************************************************************************)
(* Values.                                                                 *)
(***************************************************************************)
\* base64 image data is a positive number naming the image; 0 is null.
NoImage == 0

ImageIds == 1..(MaxSessions + 1)

\* What localStorage.getItem(TIMESTAMP_STORAGE_KEY) can hold: nothing,
\* text that JSON.parse rejects, JSON that is not an array, or a JSON array.
StoredArray(items) == [kind |-> "array", items |-> items]

StoredAbsent == [kind |-> "absent", items |-> <<>>]

StoredMalformed == [kind |-> "malformed", items |-> <<>>]

StoredNotArray == [kind |-> "notArray", items |-> <<>>]

\* A JSON array that holds the numbers items and, besides them, values that
\* are not numbers and whose difference with a number is NaN (strings that
\* are no numerals, objects).
StoredMixed(items) == [kind |-> "mixedArray", items |-> items]

\* The local state of one run of generateSingleView, and what it returned.
\* pc: "free" (no run), "awaitGenerate" (suspended at the generateContent
\* call of the image model), "awaitVerify" (suspended in verifyImageMatch),
\* "done" (returned in the step just taken).  genCalls and verifyCalls
\* count the generateContent calls of the image model and of
\* verifyImageMatch the run has issued, failedCalls the generation calls
\* that ended in the catch block (the call threw, or returned no image).
FreeSession ==
    [pc |-> "free", isRegeneration |-> FALSE, attempt |-> 0,
     genCalls |-> 0, verifyCalls |-> 0, failedCalls |-> 0,
     base64Data |-> NoImage,
     successfulBase64Data |-> NoImage, success |-> FALSE,
     terminated |-> FALSE, finalStatus |-> "none",
     firstCheck |-> FALSE, lastResponse |-> "none"]

InFlight(s) == s.pc \in {"awaitGenerate", "awaitVerify"}

(***************************************************************************)
(* State.                                                                  *)
(***************************************************************************)
VARIABLES
    now,                       \* Date.now()
    storage,                   \* localStorage[TIMESTAMP_STORAGE_KEY]
    generationTimestamps,      \* this.generationTimestamps
    uploadedBase64Image,       \* this.uploadedBase64Image (0: null)
    failureCount,              \* this.failureCount
    successfulImageData,       \* this.successfulImageData (0: null)
    isGenerationTerminated,    \* this.isGenerationTerminated
    isCartoonMode,             \* this.isCartoonMode
    rateLimitTimerInterval,    \* this.rateLimitTimerInterval !== null
    activeIntervals,           \* setInterval(updateTimer) tasks not cleared
    pendingReloads,            \* setTimeout(loadRateLimitData) not yet run
    status,                    \* last state given to _updateUIState
    generateButtonDisabled,    \* dom.generateButton.disabled
    regenerateBtnDisabled,     \* dom.regenerateBtn.disabled
    regenerateBtnHidden,       \* dom.regenerateBtn has class hidden
    terminateHidden,           \* dom.terminate has class hidden
    usageCount,                \* dom.usageCount.textContent
    alertShown,                \* alert() raised by the last handler
    sessions                   \* runs of generateSingleView, by slot

vars ==
    <<now, storage, generationTimestamps, uploadedBase64Image, failureCount,
      successfulImageData, isGenerationTerminated, isCartoonMode,
      rateLimitTimerInterval, activeIntervals, pendingReloads, status, generateButtonDisabled,
      regenerateBtnDisabled, regenerateBtnHidden, terminateHidden, usageCount,
      alertShown, sessions>>

\* The program state as one record, so that a handler is the composition of
\* the methods it calls.
State ==
    [storage |-> storage,
     generationTimestamps |-> generationTimestamps,
     uploadedBase64Image |-> uploadedBase64Image,
     failureCount |-> failureCount,
     successfulImageData |-> successfulImageData,
     isGenerationTerminated |-> isGenerationTerminated,
     isCartoonMode |-> isCartoonMode,
     rateLimitTimerInterval |-> rateLimitTimerInterval,
     activeIntervals |-> activeIntervals,
     pendingReloads |-> pendingReloads,
     status |-> status,
     generateButtonDisabled |-> generateButtonDisabled,
     regenerateBtnDisabled |-> regenerateBtnDisabled,
     regenerateBtnHidden |-> regenerateBtnHidden,
     terminateHidden |-> terminateHidden,
     usageCount |-> usageCount,
     alertShown |-> alertShown,
     sessions |-> sessions]

Becomes(st) ==
    /\ storage' = st.storage
    /\ generationTimestamps' = st.generationTimestamps
    /\ uploadedBase64Image' = st.uploadedBase64Image
    /\ failureCount' = st.failureCount
    /\ successfulImageData' = st.successfulImageData
    /\ isGenerationTerminated' = st.isGenerationTerminated
    /\ isCartoonMode' = st.isCartoonMode
    /\ rateLimitTimerInterval' = st.rateLimitTimerInterval
    /\ activeIntervals' = st.activeIntervals
    /\ pendingReloads' = st.pendingReloads
    /\ status' = st.status
    /\ generateButtonDisabled' = st.generateButtonDisabled
    /\ regenerateBtnDisabled' = st.regenerateBtnDisabled
    /\ regenerateBtnHidden' = st.regenerateBtnHidden
    /\ terminateHidden' = st.terminateHidden
    /\ usageCount' = st.usageCount
    /\ alertShown' = st.alertShown
    /\ sessions' = st.sessions

\* A job starts with no alert on screen; the return value of a run that
\* returned in the previous job has been consumed.
Sweep(ss) == [i \in Slots |-> IF ss[i].pc = "done" THEN FreeSession ELSE ss[i]]

Entering(st) == [st EXCEPT !.alertShown = "none", !.sessions = Sweep(st.sessions)]

(***************************************************************************)
(* Usage tracking.                                                         *)
(***************************************************************************)
\* A sort with the comparator turned round: (a, b) => b - a.
SortDesc(seq) ==
    [k \in 1..Len(seq) |->
        CHOOSE v \in {seq[j] : j \in 1..Len(seq)} :
            /\ Cardinality({j \in 1..Len(seq) : seq[j] > v}) < k
            /\ k <= Cardinality({j \in 1..Len(seq) : seq[j] >= v})]

\* Array.prototype.sort((a, b) => a - b) on numbers: the ascending
\* arrangement of the same entries.  The entry at position k is the value
\* with fewer than k entries below it and at least k entries not above it.
SortAsc(seq) ==
    [k \in 1..Len(seq) |->
        CHOOSE v \in {seq[j] : j \in 1..Len(seq)} :
            /\ Cardinality({j \in 1..Len(seq) : seq[j] < v}) < k
            /\ k <= Cardinality({j \in 1..Len(seq) : seq[j] <= v})]

\* A filter that keeps the entry whose age is the window exactly.
InWindowInclusive(ts, t) == (t - ts) <= RATE_LIMIT_WINDOW_MS

\* filter(ts => (now - ts) < RATE_LIMIT_WINDOW_MS)
InWindow(ts, t) == (t - ts) < RATE_LIMIT_WINDOW_MS

FilterWindow(seq, t) == SelectSeq(seq, LAMBDA ts : InWindow(ts, t))

\* The validTimestamps of loadRateLimitData.
ValidTimestamps(raw, t) ==
    IF raw.kind = "absent" THEN <<>>
    ELSE IF raw.kind = "malformed" THEN <<>>
    ELSE IF raw.kind = "array" THEN FilterWindow(SortAsc(raw.items), t)
    ELSE IF raw.kind = "mixedArray" THEN FilterWindow(SortAsc(raw.items), t)
    ELSE <<>>

\* A save that is left out.
saveTimestampsSkipped(st) == st

saveTimestamps(st) ==
    [st EXCEPT !.storage = StoredArray(st.generationTimestamps)]

LimitReached(st) == Len(st.generationTimestamps) >= RATE_LIMIT_MAX_GENERATIONS

\* A refresh that leaves the usage count on display as it is.
updateUsageDisplayButtonOnly(st) ==
    [st EXCEPT !.generateButtonDisabled =
                   LimitReached(st) \/ st.uploadedBase64Image = NoImage]

updateUsageDisplay(st) ==
    [st EXCEPT !.usageCount = Len(st.generationTimestamps),
               !.generateButtonDisabled =
                   LimitReached(st) \/ st.uploadedBase64Image = NoImage]

stopRateLimitTimer(st) ==
    IF st.rateLimitTimerInterval
    THEN [st EXCEPT !.rateLimitTimerInterval = FALSE,
                    !.activeIntervals = @ - 1]
    ELSE st

\* Math.max(0, expiryTime - Date.now()) of the oldest (first) timestamp.
RemainingMs(st, t) ==
    LET expiryTime == st.generationTimestamps[1] + RATE_LIMIT_WINDOW_MS
    IN  IF expiryTime - t > 0 THEN expiryTime - t ELSE 0

\* A countdown that stops at expiry and asks for no reload.
CountdownNoReload(st, t) ==
    IF RemainingMs(st, t) = 0 THEN stopRateLimitTimer(st) ELSE st

\* updateTimer of startRateLimitTimer, on a non-empty log.
Countdown(st, t) ==
    IF RemainingMs(st, t) = 0
    THEN [stopRateLimitTimer(st) EXCEPT !.pendingReloads = @ + 1]
    ELSE st

\* A start that does not stop the interval of the previous start.
startRateLimitTimerNoStop(st, t) ==
    IF Len(st.generationTimestamps) = 0
    THEN st
    ELSE [Countdown(st, t) EXCEPT !.rateLimitTimerInterval = TRUE,
                                  !.activeIntervals = @ + 1]

\* The handle of the new interval replaces the one stopRateLimitTimer set
\* to null.
startRateLimitTimer(st, t) ==
    LET stopped == stopRateLimitTimer(st)
    IN  IF Len(stopped.generationTimestamps) = 0
        THEN stopped
        ELSE [Countdown(stopped, t) EXCEPT !.rateLimitTimerInterval = TRUE,
                                           !.activeIntervals = @ + 1]

loadRateLimitData(st, t) ==
    LET loaded == [st EXCEPT !.generationTimestamps = ValidTimestamps(st.storage, t)]
    IN  startRateLimitTimer(updateUsageDisplay(saveTimestamps(loaded)), t)

(***************************************************************************)
(* UI state.                                                               *)
(***************************************************************************)
\* _updateUIState: every state first hides the terminate button and
\* disables the regenerate button, then the switch applies the new state.
updateUIState(st, state, isRegen) ==
    LET limitReached == LimitReached(st)
        reset == [st EXCEPT !.status = state,
                            !.terminateHidden = TRUE,
                            !.regenerateBtnDisabled = TRUE]
    IN  CASE state = "idle" ->
                 [reset EXCEPT !.regenerateBtnHidden = TRUE]
          [] state = "loading" ->
                 [reset EXCEPT !.terminateHidden = FALSE,
                               !.regenerateBtnHidden = IF isRegen THEN @ ELSE TRUE]
          [] state = "success" ->
                 [reset EXCEPT !.regenerateBtnHidden = FALSE,
                               !.regenerateBtnDisabled = limitReached]
          [] state = "failure" ->
                 [reset EXCEPT !.regenerateBtnHidden = FALSE,
                               !.regenerateBtnDisabled = limitReached]
          [] state = "terminating" ->
                 [reset EXCEPT !.terminateHidden = TRUE,
                               !.regenerateBtnHidden = FALSE,
                               !.regenerateBtnDisabled = limitReached]

\* A reset that also gives the consumed quota back.
resetUIClearsLog(st) ==
    LET cleared == [st EXCEPT !.uploadedBase64Image = NoImage,
                              !.successfulImageData = NoImage,
                              !.isCartoonMode = FALSE,
                              !.generationTimestamps = <<>>,
                              !.storage = StoredArray(<<>>),
                              !.usageCount = 0]
    IN  [updateUIState(cleared, "idle", FALSE) EXCEPT
             !.failureCount = 0,
             !.generateButtonDisabled = TRUE]

resetUI(st) ==
    LET cleared == [st EXCEPT !.uploadedBase64Image = NoImage,
                              !.successfulImageData = NoImage,
                              !.isCartoonMode = FALSE]
    IN  [updateUIState(cleared, "idle", FALSE) EXCEPT
             !.failureCount = 0,
             !.generateButtonDisabled = TRUE]

\* reader.onload of handleFile, for an image file: a data URL holds a comma.
handleFile(st, image) ==
    updateUsageDisplay([st EXCEPT !.uploadedBase64Image = image,
                                  !.failureCount = 0])

(***************************************************************************)
(* The retry loop.                                                         *)
(***************************************************************************)
FreeSlots(st) == {i \in Slots : st.sessions[i].pc = "free"}

LowestFree(st) == CHOOSE i \in FreeSlots(st) : \A j \in FreeSlots(st) : i <= j

\* The image a generateContent call returns: one that is not held anywhere.
FreshImage(st) ==
    LET held == {st.successfulImageData}
                  \cup {st.sessions[j].base64Data : j \in Slots}
                  \cup {st.sessions[j].successfulBase64Data : j \in Slots}
        free == ImageIds \ held
    IN  CHOOSE x \in free : \A y \in free : x <= y

\* The run in slot i returns: its record keeps the return value
\* {success, base64Data, terminated} and the state it gave _updateUIState.
Return(st, i, finalStatus, terminated, resp) ==
    [st EXCEPT !.sessions[i].pc = "done",
               !.sessions[i].finalStatus = finalStatus,
               !.sessions[i].terminated = terminated,
               !.sessions[i].base64Data = NoImage,
               !.sessions[i].lastResponse = resp]

\* The success branch shows the image but does not store it.
PostLoopNotStored(st, i, resp) ==
    LET s == st.sessions[i]
    IN  IF s.success
        THEN Return(updateUIState(st, "success", FALSE), i, "success", FALSE, resp)
        ELSE LET failed == updateUIState(st, "failure", s.isRegeneration)
                 counted == IF ~s.isRegeneration
                            THEN [failed EXCEPT !.failureCount = @ + 1]
                            ELSE failed
             IN  Return(counted, i, "failure", FALSE, resp)

\* After the for loop: if (success) ... else ...
PostLoop(st, i, resp) ==
    LET s == st.sessions[i]
    IN  IF s.success
        THEN Return(updateUIState(
                        [st EXCEPT !.successfulImageData = s.successfulBase64Data],
                        "success", FALSE),
                    i, "success", FALSE, resp)
        ELSE LET failed == updateUIState(st, "failure", s.isRegeneration)
                 counted == IF ~s.isRegeneration
                            THEN [failed EXCEPT !.failureCount = @ + 1]
                            ELSE failed
             IN  Return(counted, i, "failure", FALSE, resp)

\* A loop that runs one attempt too many.
LoopContinuesOffByOne(attempt) == attempt <= MAX_ATTEMPTS + 1

\* The loop condition attempt <= MAX_ATTEMPTS.
LoopContinues(attempt) == attempt <= MAX_ATTEMPTS

\* A loop that never looks at the flag.
ObservesTerminationNever(st) == FALSE

\* if (this.isGenerationTerminated) at the top of the loop body.
ObservesTermination(st) == st.isGenerationTerminated

\* A termination that is reported as a failure.
TerminateAsFailure(st, i, resp) ==
    Return(updateUIState(st, "failure", FALSE), i, "failure", FALSE, resp)

\* The body of that if: the run returns {terminated: true}.
Terminate(st, i, resp) ==
    Return(updateUIState(st, "terminating", FALSE), i, "terminating", TRUE, resp)

\* The head of the for loop at the given attempt: the loop condition, the
\* check of isGenerationTerminated, and the generateContent call.
LoopHead(st, i, attempt, resp) ==
    LET checked == IF attempt = 1
                   THEN [st EXCEPT !.sessions[i].firstCheck = st.isGenerationTerminated]
                   ELSE st
    IN  IF LoopContinues(attempt)
        THEN IF ObservesTermination(checked)
             THEN Terminate(checked, i, resp)
             ELSE [checked EXCEPT !.sessions[i].pc = "awaitGenerate",
                                  !.sessions[i].attempt = attempt,
                                  !.sessions[i].base64Data = NoImage,
                                  !.sessions[i].genCalls = @ + 1]
        ELSE PostLoop(st, i, resp)

\* A run that forgets the stored result when it starts.
generateSingleViewResets(st, i, isRegeneration) ==
    LET loading == updateUIState([st EXCEPT !.successfulImageData = NoImage],
                                 "loading", isRegeneration)
        started == [loading EXCEPT
                        !.sessions[i] = [FreeSession EXCEPT
                                             !.isRegeneration = isRegeneration]]
    IN  LoopHead(started, i, 1, "none")

\* generateSingleView up to its first await (or its return).
generateSingleView(st, i, isRegeneration) ==
    LET loading == updateUIState(st, "loading", isRegeneration)
        started == [loading EXCEPT
                        !.sessions[i] = [FreeSession EXCEPT
                                             !.isRegeneration = isRegeneration]]
    IN  LoopHead(started, i, 1, "none")

\* The finally block of startGenerationProcess.
Finally(st) ==
    LET shown == updateUsageDisplay(st)
    IN  IF shown.successfulImageData # NoImage
        THEN [shown EXCEPT !.regenerateBtnDisabled = LimitReached(shown)]
        ELSE shown

\* What follows the return of the run in slot i: the caller of a generate
\* run is startGenerationProcess, a regenerate run has no caller left.
Resume(st, i) ==
    IF st.sessions[i].pc = "done" /\ ~st.sessions[i].isRegeneration
    THEN Finally(st)
    ELSE st

startGenerationProcess(st, i) ==
    IF st.uploadedBase64Image = NoImage
    THEN [st EXCEPT !.alertShown = "upload"]
    ELSE LET prepared == [st EXCEPT !.isGenerationTerminated = FALSE,
                                    !.generateButtonDisabled = TRUE,
                                    !.failureCount = 0,
                                    !.successfulImageData = NoImage]
         IN  Resume(generateSingleView(prepared, i, FALSE), i)

\* An admission test that lets one request too many through.
DeniedOffByOne(st) == Len(st.generationTimestamps) > RATE_LIMIT_MAX_GENERATIONS

\* A handler that admits every request.
DeniedNever(st) == FALSE

\* The admission test of handleGenerationClick.
Denied(st) == Len(st.generationTimestamps) >= RATE_LIMIT_MAX_GENERATIONS

\* A handler that records the request before it tests the limit.
handleGenerationClickPushFirst(st, type, t) ==
    LET loaded == loadRateLimitData(st, t)
        pushed == [loaded EXCEPT !.generationTimestamps = Append(@, t)]
        shown == startRateLimitTimer(updateUsageDisplay(saveTimestamps(pushed)), t)
        i == LowestFree(shown)
    IN  IF Denied(loaded)
        THEN [shown EXCEPT !.alertShown = "quota"]
        ELSE IF type = "generate"
             THEN startGenerationProcess(shown, i)
             ELSE generateSingleView(shown, i, TRUE)

\* handleGenerationClick: both readings of Date.now() are made in one job
\* and give t.
handleGenerationClick(st, type, t) ==
    LET loaded == loadRateLimitData(st, t)
    IN  IF Denied(loaded)
        THEN [loaded EXCEPT !.alertShown = "quota"]
        ELSE LET pushed == [loaded EXCEPT !.generationTimestamps = Append(@, t)]
                 shown == startRateLimitTimer(
                              updateUsageDisplay(saveTimestamps(pushed)), t)
                 i == LowestFree(shown)
             IN  IF type = "generate"
                 THEN startGenerationProcess(shown, i)
                 ELSE generateSingleView(shown, i, TRUE)

\* A loop without the catch: the error of a generation call ends the run
\* with no outcome.
afterGenerateEscapes(st, i, resp) ==
    IF resp = "image"
    THEN [st EXCEPT !.sessions[i].base64Data = FreshImage(st),
                    !.sessions[i].pc = "awaitVerify",
                    !.sessions[i].verifyCalls = @ + 1]
    ELSE [st EXCEPT !.sessions[i] = FreeSession]

\* A loop that gives up at the first generation call that fails.
afterGenerateAbortsOnError(st, i, resp) ==
    IF resp = "image"
    THEN [st EXCEPT !.sessions[i].base64Data = FreshImage(st),
                    !.sessions[i].pc = "awaitVerify",
                    !.sessions[i].verifyCalls = @ + 1]
    ELSE PostLoop([st EXCEPT !.sessions[i].failedCalls = @ + 1], i, resp)

\* A loop that validates in every mode.
BypassValidationNever(st) == FALSE

\* The left operand of this.isCartoonMode || await this.verifyImageMatch(..).
BypassValidation(st) == st.isCartoonMode

\* The generateContent call of the run in slot i settles: it throws
\* ("error"), returns no image data ("empty"), or returns an image.
afterGenerate(st, i, resp) ==
    LET s == st.sessions[i]
    IN  IF resp = "image"
        THEN LET got == [st EXCEPT !.sessions[i].base64Data = FreshImage(st)]
             IN  IF BypassValidation(got)
                 THEN PostLoop([got EXCEPT
                                    !.sessions[i].successfulBase64Data =
                                        got.sessions[i].base64Data,
                                    !.sessions[i].success = TRUE],
                               i, resp)
                 ELSE [got EXCEPT !.sessions[i].pc = "awaitVerify",
                                  !.sessions[i].verifyCalls = @ + 1]
        ELSE LoopHead([st EXCEPT !.sessions[i].failedCalls = @ + 1],
                      i, s.attempt + 1, resp)

\* A validation that takes every answer for a YES.
afterVerifyAcceptsAnyAnswer(st, i, resp) ==
    IF resp \in {"YES", "NO"}
    THEN PostLoop([st EXCEPT !.sessions[i].successfulBase64Data =
                                 st.sessions[i].base64Data,
                             !.sessions[i].success = TRUE],
                  i, resp)
    ELSE LoopHead(st, i, st.sessions[i].attempt + 1, resp)

\* A validation whose failure ends the run.
afterVerifyAbortsOnError(st, i, resp) ==
    IF resp = "YES"
    THEN PostLoop([st EXCEPT !.sessions[i].successfulBase64Data =
                                 st.sessions[i].base64Data,
                             !.sessions[i].success = TRUE],
                  i, resp)
    ELSE IF resp = "error"
         THEN PostLoop(st, i, resp)
         ELSE LoopHead(st, i, st.sessions[i].attempt + 1, resp)

\* The generateContent call of verifyImageMatch settles: the answer is YES,
\* any other text ("NO"), or the call throws ("error": caught, false).
afterVerify(st, i, resp) ==
    LET s == st.sessions[i]
    IN  IF resp = "YES"
        THEN PostLoop([st EXCEPT !.sessions[i].successfulBase64Data = s.base64Data,
                                 !.sessions[i].success = TRUE],
                      i, resp)
        ELSE LoopHead(st, i, s.attempt + 1, resp)

(***************************************************************************)
(* Construction.                                                           *)
(***************************************************************************)
\* A fresh page over the given localStorage: the field initializers of
\* PortraitGeneratorApp and the page as _updateUIState('idle') shows it.
FreshPage(raw) ==
    [storage |-> raw,
     generationTimestamps |-> <<>>,
     uploadedBase64Image |-> NoImage,
     failureCount |-> 0,
     successfulImageData |-> NoImage,
     isGenerationTerminated |-> FALSE,
     isCartoonMode |-> FALSE,
     rateLimitTimerInterval |-> FALSE,
     activeIntervals |-> 0,
     pendingReloads |-> 0,
     status |-> "idle",
     generateButtonDisabled |-> TRUE,
     regenerateBtnDisabled |-> TRUE,
     regenerateBtnHidden |-> TRUE,
     terminateHidden |-> TRUE,
     usageCount |-> 0,
     alertShown |-> "none",
     sessions |-> [i \in Slots |-> FreeSession]]

\* new PortraitGeneratorApp()
Constructor(raw, t) == loadRateLimitData(FreshPage(raw), t)

\* Stored arrays of at most RATE_LIMIT_MAX_GENERATIONS timestamps, in any
\* order.
StoredArrays ==
    {StoredArray(q) : q \in UNION {[1..n -> Times] : n \in 0..RATE_LIMIT_MAX_GENERATIONS}}

InitialStorage == {StoredAbsent, StoredMalformed, StoredNotArray} \cup StoredArrays

\* The page has been constructed over the stored value raw at time t.
Constructed(raw, t) ==
        /\ now = t
        /\ LET st == Constructor(raw, t)
           IN  /\ storage = st.storage
               /\ generationTimestamps = st.generationTimestamps
               /\ uploadedBase64Image = st.uploadedBase64Image
               /\ failureCount = st.failureCount
               /\ successfulImageData = st.successfulImageData
               /\ isGenerationTerminated = st.isGenerationTerminated
               /\ isCartoonMode = st.isCartoonMode
               /\ rateLimitTimerInterval = st.rateLimitTimerInterval
               /\ activeIntervals = st.activeIntervals
               /\ pendingReloads = st.pendingReloads
               /\ status = st.status
               /\ generateButtonDisabled = st.generateButtonDisabled
               /\ regenerateBtnDisabled = st.regenerateBtnDisabled
               /\ regenerateBtnHidden = st.regenerateBtnHidden
               /\ terminateHidden = st.terminateHidden
               /\ usageCount = st.usageCount
               /\ alertShown = st.alertShown
               /\ sessions = st.sessions

Init == \E raw \in InitialStorage, t \in Times : Constructed(raw, t)

\* The first visit: nothing is stored.
InitFirstVisit == \E t \in Times : Constructed(StoredAbsent, t)

(***************************************************************************)
(* Actions.                                                                *)
(***************************************************************************)
\* A job whose effect is st; the pending reloads stay within the bound.
Job(st) ==
    /\ st.pendingReloads <= MaxPending
    /\ Becomes(st)
    /\ UNCHANGED now

\* The page is loaded again: the runs and timers of the old page are gone,
\* localStorage stays.
PageLoad ==
    Job(Constructor(storage, now))

\* Click on the generate button.
GenerateClick ==
    /\ ~generateButtonDisabled
    /\ FreeSlots(Entering(State)) # {}
    /\ Job(handleGenerationClick(Entering(State), "generate", now))

\* Click on the regenerate button.
RegenerateClick ==
    /\ ~regenerateBtnHidden
    /\ ~regenerateBtnDisabled
    /\ FreeSlots(Entering(State)) # {}
    /\ Job(handleGenerationClick(Entering(State), "regenerate", now))

\* Click on the terminate button.
TerminateClick ==
    /\ ~terminateHidden
    /\ Job([Entering(State) EXCEPT !.isGenerationTerminated = TRUE])

\* Click on the clear button.
ClearClick ==
    Job(resetUI(Entering(State)))

\* An image file was chosen or dropped and has been read.
FileLoaded ==
    Job(handleFile(Entering(State), 1))

\* The cartoon checkbox changes.
CartoonChange ==
    Job([Entering(State) EXCEPT !.isCartoonMode = ~isCartoonMode])

\* The image model's call of the run in slot i settles.
GenerateResponds(i, resp) ==
    /\ sessions[i].pc = "awaitGenerate"
    /\ Job(Resume(afterGenerate(Entering(State), i, resp), i))

\* The verification call of the run in slot i settles.
VerifyResponds(i, resp) ==
    /\ sessions[i].pc = "awaitVerify"
    /\ Job(Resume(afterVerify(Entering(State), i, resp), i))

\* The updateTimer callback of setInterval.
updateTimer(st, t) ==
    IF Len(st.generationTimestamps) = 0
    THEN loadRateLimitData(stopRateLimitTimer(st), t)
    ELSE Countdown(st, t)

RateLimitTick ==
    /\ activeIntervals > 0
    /\ Job(updateTimer(Entering(State), now))

\* The setTimeout(() => this.loadRateLimitData(), 1000) callback.
ReloadTimeout ==
    /\ pendingReloads > 0
    /\ Job(loadRateLimitData([Entering(State) EXCEPT !.pendingReloads = @ - 1], now))

\* The clock reads another value (it may also be set back).
ClockChange(t) ==
    /\ t # now
    /\ now' = t
    /\ Becomes(Entering(State))

\* Another page of the same origin handles a click on one of its generation
\* buttons: localStorage is shared, this page's memory is not touched.
OtherPageRequest ==
    /\ Job([Entering(State) EXCEPT
                !.storage = handleGenerationClick(Constructor(storage, now),
                                                  "regenerate", now).storage])

\* No run of generateSingleView is suspended at an await.
Quiet == \A i \in Slots : ~InFlight(sessions[i])

\* The application, used as section 5 of the specification expects: no
\* request is made while a run is in flight.
Next ==
    \/ PageLoad
    \/ Quiet /\ GenerateClick
    \/ Quiet /\ RegenerateClick
    \/ TerminateClick
    \/ ClearClick
    \/ FileLoaded
    \/ CartoonChange
    \/ \E i \in Slots, resp \in {"error", "empty", "image"} : GenerateResponds(i, resp)
    \/ \E i \in Slots, resp \in {"YES", "NO", "error"} : VerifyResponds(i, resp)
    \/ RateLimitTick
    \/ ReloadTimeout
    \/ \E t \in Times : ClockChange(t)

Spec == Init /\ [][Next]_vars

\* The application with requests made whenever the page accepts a click.
NextFull ==
    \/ PageLoad
    \/ GenerateClick
    \/ RegenerateClick
    \/ TerminateClick
    \/ ClearClick
    \/ FileLoaded
    \/ CartoonChange
    \/ \E i \in Slots, resp \in {"error", "empty", "image"} : GenerateResponds(i, resp)
    \/ \E i \in Slots, resp \in {"YES", "NO", "error"} : VerifyResponds(i, resp)
    \/ RateLimitTick
    \/ ReloadTimeout
    \/ OtherPageRequest
    \/ \E t \in Times : ClockChange(t)

SpecFull == Init /\ [][NextFull]_vars

\* One page among several of the same origin: localStorage is written by
\* the other pages as well; the user uploads photos and asks for
\* generations, one at a time.
NextShared ==
    \/ PageLoad
    \/ Quiet /\ GenerateClick
    \/ Quiet /\ RegenerateClick
    \/ FileLoaded
    \/ \E i \in Slots, resp \in {"error", "empty", "image"} : GenerateResponds(i, resp)
    \/ \E i \in Slots, resp \in {"YES", "NO", "error"} : VerifyResponds(i, resp)
    \/ RateLimitTick
    \/ ReloadTimeout
    \/ OtherPageRequest
    \/ \E t \in Times : ClockChange(t)

SpecShared == Init /\ [][NextShared]_vars

\* The application on one page from the first visit on, with a clock that is not
\* set back and a user who uploads photos and asks for generations only.
NextConcurrent ==
    \/ GenerateClick
    \/ RegenerateClick
    \/ FileLoaded
    \/ \E i \in Slots, resp \in {"error", "empty", "image"} : GenerateResponds(i, resp)
    \/ \E i \in Slots, resp \in {"YES", "NO", "error"} : VerifyResponds(i, resp)
    \/ RateLimitTick
    \/ ReloadTimeout
    \/ \E t \in Times : t > now /\ ClockChange(t)

SpecConcurrent == InitFirstVisit /\ [][NextConcurrent]_vars

\* localStorage is written from outside the page (another script of the
\* origin, the developer tools); the page listens to no storage event.
StorageWritten(raw) ==
    Job([Entering(State) EXCEPT !.storage = raw])

\* Stored timestamps and clock values that give every age: below the
\* window, the window exactly, above it, and in the future.
StoredTimes == {0, 60000, RATE_LIMIT_WINDOW_MS}

LoadClock == {0, 300000, RATE_LIMIT_WINDOW_MS, 610000}

\* The log of scenarios B and C of the specification.
ScenarioLog == <<0, 60000, 120000, 180000, 240000>>

\* Among the values that are not numbers at most one number: with several,
\* the order sort((a, b) => a - b) leaves them in depends on the engine.
StoredMixedArrays == {StoredMixed(<<>>)} \cup {StoredMixed(<<ts>>) : ts \in StoredTimes}

StoredInputs ==
    {StoredArray(q) : q \in UNION {[1..n -> StoredTimes] : n \in 0..MaxStored}}
        \cup {StoredArray(ScenarioLog)}
        \cup {StoredAbsent, StoredMalformed, StoredNotArray}
        \cup StoredMixedArrays

InitLoad == \E raw \in StoredInputs, t \in LoadClock : Constructed(raw, t)

\* The usage tracking alone: loads, countdown ticks and reloads over any
\* stored value and clock value.
NextLoad ==
    \/ PageLoad
    \/ \E raw \in StoredInputs : StorageWritten(raw)
    \/ RateLimitTick
    \/ ReloadTimeout
    \/ \E t \in LoadClock : ClockChange(t)

SpecLoad == InitLoad /\ [][NextLoad]_vars

\* Stored logs around the limit: the first n entries of the scenario log,
\* and the scenario log in another order.
StoredLogs ==
    {StoredArray(SubSeq(ScenarioLog, 1, n)) : n \in 0..Len(ScenarioLog)}
        \cup {StoredArray(<<240000, 0, 180000, 60000, 120000>>)}

\* Requests over these stored logs at any clock value, one at a time, with
\* a remote model that returns an image the validation accepts.
NextAdmit ==
    \/ FileLoaded
    \/ \E raw \in StoredLogs : StorageWritten(raw)
    \/ Quiet /\ GenerateClick
    \/ Quiet /\ RegenerateClick
    \/ \E i \in Slots : GenerateResponds(i, "image")
    \/ \E i \in Slots : VerifyResponds(i, "YES")
    \/ \E t \in LoadClock : ClockChange(t)

SpecAdmit == InitLoad /\ [][NextAdmit]_vars

\* Clock values up to one at which every stored timestamp has expired.
ExpiryClock == LoadClock \cup {2 * RATE_LIMIT_WINDOW_MS}

ClockAdvances == \E t \in ExpiryClock : t > now /\ ClockChange(t)

\* The countdown left to itself: no request is made, the clock advances,
\* and the callbacks of setInterval and setTimeout run when they are due.
NextCountdown ==
    \/ RateLimitTick
    \/ ReloadTimeout
    \/ ClockAdvances

SpecCountdown ==
    /\ InitLoad
    /\ [][NextCountdown]_vars
    /\ WF_vars(RateLimitTick)
    /\ WF_vars(ReloadTimeout)
    /\ WF_vars(ClockAdvances)

(***************************************************************************)
(* Properties.                                                             *)
(***************************************************************************)
\* How often v occurs in seq.
Count(seq, v) == Cardinality({k \in 1..Len(seq) : seq[k] = v})

\* The entries of seq whose age at time t is below the window.
ActiveCount(seq, t) ==
    Cardinality({k \in 1..Len(seq) : (t - seq[k]) < RATE_LIMIT_WINDOW_MS})

\* seq2 holds what seq holds of the entries within the window at time t,
\* and nothing else.
IsPruned(seq2, seq, t) ==
    \A v \in Times :
        Count(seq2, v) = IF (t - v) < RATE_LIMIT_WINDOW_MS THEN Count(seq, v) ELSE 0

\* A run of generateSingleView starts in slot i in this step.
Starts(i) == Sweep(sessions)[i].pc = "free" /\ sessions'[i].pc # "free"

\* The remote call the run in slot i is suspended at settles in this step.
Settles(i) ==
    /\ InFlight(sessions[i])
    /\ sessions'[i] # sessions[i]
    /\ sessions'[i].pc # "free"

\* The attempt that ended with a run's return produced an accepted image:
\* the validation answered YES, or an image came back in cartoon mode.
Accepted(s) ==
    \/ s.lastResponse = "YES"
    \/ s.lastResponse = "image" /\ isCartoonMode

NotAccepted(s) ==
    \/ s.lastResponse \in {"error", "empty", "NO"}
    \/ s.lastResponse = "image" /\ ~isCartoonMode

\* C1: from a stored value of at most 5 timestamps on, the log in memory
\* and the stored log never hold more than RATE_LIMIT_MAX_GENERATIONS
\* entries whose age at the current clock value is below the window.
C1_AtMostMaxActive ==
    /\ ActiveCount(generationTimestamps, now) <= RATE_LIMIT_MAX_GENERATIONS
    /\ storage.kind = "array"
    /\ ActiveCount(storage.items, now) <= RATE_LIMIT_MAX_GENERATIONS

\* A request was just denied on a log of 5 entries that are all within the
\* window.
C1_Witness ==
    /\ alertShown = "quota"
    /\ ActiveCount(generationTimestamps, now) = RATE_LIMIT_MAX_GENERATIONS
    /\ ActiveCount(storage.items, now) = RATE_LIMIT_MAX_GENERATIONS

\* C2: at most one run of generateSingleView is in flight at any time.
C2_SingleSessionInFlight ==
    Cardinality({i \in Slots : InFlight(sessions[i])}) <= 1

\* C3: the cancellation flag is unset when the retry loop of an admitted
\* request, generate or regenerate, makes its first check.
C3_FlagUnsetAtFirstCheck ==
    \A i \in Slots : sessions[i].pc # "free" => ~sessions[i].firstCheck

\* C4: one run of generateSingleView issues at most MAX_ATTEMPTS calls to
\* the generation capability.
C4_AtMostMaxAttemptsCalls ==
    \A i \in Slots : sessions[i].genCalls <= MAX_ATTEMPTS

\* A run has just returned failure after MAX_ATTEMPTS generation calls.
C4_Witness ==
    \E i \in Slots :
        /\ sessions[i].pc = "done"
        /\ sessions[i].finalStatus = "failure"
        /\ sessions[i].genCalls = MAX_ATTEMPTS

\* C5: the job that starts a run has appended exactly one timestamp (the
\* current time) to the pruned stored log and persisted it by the time the first
\* generation call is out; no job, whatever the outcome of a run, takes
\* from storage an entry whose age is below the window, and the log in
\* memory keeps such an entry or is reloaded from storage.
C5_QuotaConsumedAndKept ==
    [][/\ \A i \in Slots :
              Starts(i) =>
                  /\ \A v \in Times :
                         Count(generationTimestamps', v) =
                             (IF (now - v) < RATE_LIMIT_WINDOW_MS
                              THEN Count(storage.items, v) ELSE 0)
                             + (IF v = now THEN 1 ELSE 0)
                  /\ generationTimestamps'[Len(generationTimestamps')] = now
                  /\ storage' = StoredArray(generationTimestamps')
       /\ \A v \in Times :
              (now' - v) < RATE_LIMIT_WINDOW_MS =>
                  /\ Count(storage'.items, v) >= Count(storage.items, v)
                  /\ \/ Count(generationTimestamps', v) >= Count(generationTimestamps, v)
                     \/ Count(generationTimestamps', v) >= Count(storage.items, v)
       /\ \A i \in Slots :
              Settles(i) =>
                  /\ generationTimestamps' = generationTimestamps
                  /\ storage' = storage]_vars

\* A run has just returned failure while the timestamp of its request is
\* in the log and in storage.
C5_Witness ==
    \E i \in Slots :
        /\ sessions[i].pc = "done"
        /\ sessions[i].finalStatus \in {"failure", "terminating"}
        /\ sessions[i].genCalls >= 1
        /\ Len(generationTimestamps) >= 1
        /\ storage = StoredArray(generationTimestamps)

\* C6: a denied request leaves the log as the load pruned it (5 or more
\* entries, persisted), starts no run and makes no remote call, and leaves
\* the status, the cancellation flag, the failure counter and the stored
\* result as they were.
C6_DenialHasNoSideEffect ==
    [][alertShown' = "quota" =>
           /\ IsPruned(generationTimestamps', storage.items, now)
           /\ Len(generationTimestamps') >= RATE_LIMIT_MAX_GENERATIONS
           /\ storage' = StoredArray(generationTimestamps')
           /\ sessions' = Sweep(sessions)
           /\ status' = status
           /\ isGenerationTerminated' = isGenerationTerminated
           /\ failureCount' = failureCount
           /\ successfulImageData' = successfulImageData]_vars

\* A request was just denied after a run had ended in success.
C6_Witness ==
    /\ alertShown = "quota"
    /\ status = "success"
    /\ successfulImageData # NoImage

C9_CartoonBypassesValidation ==
    [][isCartoonMode =>
           \A i \in Slots :
               /\ sessions'[i].pc = "awaitVerify" => sessions[i].pc = "awaitVerify"
               /\ (Settles(i) /\ sessions'[i].lastResponse = "image") =>
                      /\ sessions'[i].pc = "done"
                      /\ sessions'[i].success
                      /\ sessions'[i].finalStatus = "success"
                      /\ status' = "success"]_vars

\* In cartoon mode a run has just ended in success on the image returned.
C9_Witness ==
    \E i \in Slots :
        /\ isCartoonMode
        /\ sessions[i].pc = "done"
        /\ sessions[i].lastResponse = "image"
        /\ sessions[i].finalStatus = "success"

\* C10: when a run returns, the status it sets is success exactly when its
\* last attempt returned an accepted image, which is then the stored
\* result; failure exactly when MAX_ATTEMPTS attempts were consumed without
\* an accepted image; terminating exactly when the flag was found set at
\* the check before an attempt.
C10_StatusFollowsOutcome ==
    \A i \in Slots :
        sessions[i].pc = "done" =>
            LET s == sessions[i]
            IN  /\ status = s.finalStatus
                /\ s.finalStatus \in {"success", "failure", "terminating"}
                /\ s.finalStatus = "success" <=> Accepted(s)
                /\ s.finalStatus = "success" =>
                       /\ s.success /\ ~s.terminated
                       /\ s.successfulBase64Data # NoImage
                       /\ successfulImageData = s.successfulBase64Data
                /\ s.finalStatus = "failure" <=>
                       (~Accepted(s) /\ s.genCalls = MAX_ATTEMPTS)
                /\ s.finalStatus = "failure" => (~s.success /\ ~s.terminated)
                /\ s.finalStatus = "terminating" <=>
                       (~Accepted(s) /\ s.genCalls < MAX_ATTEMPTS)
                /\ s.finalStatus = "terminating" =>
                       (s.terminated /\ ~s.success /\ isGenerationTerminated)

\* A run has just ended in success on a validated image, now the stored
\* result.
C10_Witness ==
    \E i \in Slots :
        /\ sessions[i].pc = "done"
        /\ sessions[i].finalStatus = "success"
        /\ sessions[i].lastResponse = "YES"
        /\ successfulImageData = sessions[i].successfulBase64Data

\* C11: a generation call that throws or returns no image consumes exactly
\* one attempt and the loop goes on (the run ends on such a call only when
\* it was attempt MAX_ATTEMPTS or when cancellation is observed); with
\* validation enabled, a run whose attempts 1..k-1 all failed that way and
\* whose attempt k returns an image the validation accepts returns success
\* after exactly k generation calls and exactly one validation call.
C11_FailedCallConsumesOneAttempt ==
    [][\A i \in Slots :
           LET s == sessions[i]
               t == sessions'[i]
           IN  /\ (s.pc = "awaitGenerate" /\ t.pc = "awaitGenerate" /\ t # s) =>
                      /\ t.attempt = s.attempt + 1
                      /\ t.genCalls = s.genCalls + 1
                      /\ t.failedCalls = s.failedCalls + 1
                      /\ t.verifyCalls = s.verifyCalls
               /\ (s.pc = "awaitGenerate" /\ t.pc = "done"
                       /\ t.lastResponse \in {"error", "empty"}) =>
                      \/ s.attempt = MAX_ATTEMPTS /\ t.finalStatus = "failure"
                      \/ isGenerationTerminated /\ t.finalStatus = "terminating"
               /\ (s.pc = "awaitVerify" /\ t.pc = "done" /\ t.lastResponse = "YES"
                       /\ t.failedCalls = t.genCalls - 1) =>
                      /\ t.success
                      /\ t.finalStatus = "success"
                      /\ status' = "success"
                      /\ t.genCalls = s.attempt
                      /\ t.genCalls <= MAX_ATTEMPTS
                      /\ t.verifyCalls = 1]_vars

\* Scenario D: four generation calls returned no image or failed, the
\* fifth returned an image that the validation accepted.
C11_Witness ==
    \E i \in Slots :
        /\ sessions[i].pc = "done"
        /\ sessions[i].lastResponse = "YES"
        /\ sessions[i].finalStatus = "success"
        /\ sessions[i].failedCalls = MAX_ATTEMPTS - 1
        /\ sessions[i].genCalls = MAX_ATTEMPTS
        /\ sessions[i].verifyCalls = 1

\* C12: a validation call that answers anything but YES and one that fails
\* have the same effect, that of a rejected candidate: the run goes on with
\* the next attempt (or ends in failure after attempt MAX_ATTEMPTS, or in
\* terminating when cancellation is observed), the attempt is consumed, and
\* the candidate is neither kept by the run nor stored as the result.
C12_RejectedCandidate ==
    [][\A i \in Slots :
           LET s == sessions[i]
               t == sessions'[i]
               no == Resume(afterVerify(Entering(State), i, "NO"), i)
               failed == Resume(afterVerify(Entering(State), i, "error"), i)
           IN  /\ s.pc = "awaitVerify" =>
                      [failed EXCEPT !.sessions[i].lastResponse =
                                         no.sessions[i].lastResponse] = no
               /\ (s.pc = "awaitVerify" /\ t.pc = "awaitGenerate") =>
                      /\ t.attempt = s.attempt + 1
                      /\ t.genCalls = s.genCalls + 1
                      /\ t.verifyCalls = s.verifyCalls
                      /\ t.base64Data = NoImage
                      /\ ~t.success
                      /\ t.successfulBase64Data = NoImage
                      /\ successfulImageData' = successfulImageData
               /\ (s.pc = "awaitVerify" /\ t.pc = "done"
                       /\ t.lastResponse \in {"NO", "error"}) =>
                      /\ \/ s.attempt = MAX_ATTEMPTS /\ t.finalStatus = "failure"
                         \/ isGenerationTerminated /\ t.finalStatus = "terminating"
                      /\ ~t.success
                      /\ t.successfulBase64Data = NoImage
                      /\ successfulImageData' = successfulImageData]_vars

\* All five candidates of a run were rejected, the last one by a validation
\* call that failed.
C12_Witness ==
    \E i \in Slots :
        /\ sessions[i].pc = "done"
        /\ sessions[i].lastResponse = "error"
        /\ sessions[i].verifyCalls = MAX_ATTEMPTS
        /\ sessions[i].finalStatus = "failure"

\* A step in which loadRateLimitData ran and nothing else touched the log.
Loads ==
    \/ PageLoad
    \/ ReloadTimeout
    \/ RateLimitTick /\ Len(generationTimestamps) = 0

IsAscending(seq) == \A j, k \in 1..Len(seq) : j < k => seq[j] <= seq[k]

Elements(seq) == {seq[k] : k \in 1..Len(seq)}

\* C13: for every stored array of timestamps and every clock value, after
\* loadRateLimitData the log in memory and the stored log are equal, are in
\* ascending order and hold exactly the stored entries whose age is below
\* RATE_LIMIT_WINDOW_MS; an entry whose age is the window exactly is gone.
C13_LoadSortsAndPrunes ==
    [][(Loads /\ storage.kind = "array") =>
           /\ storage' = StoredArray(generationTimestamps')
           /\ IsAscending(generationTimestamps')
           /\ \A v \in Elements(storage.items) \cup Elements(generationTimestamps') :
                  Count(generationTimestamps', v) =
                      IF (now - v) < RATE_LIMIT_WINDOW_MS
                      THEN Count(storage.items, v) ELSE 0
           /\ \A v \in Elements(generationTimestamps') :
                  now - v # RATE_LIMIT_WINDOW_MS]_vars

\* A load at clock value RATE_LIMIT_WINDOW_MS has left two entries, in
\* ascending order, in memory and in storage.
C13_Witness ==
    /\ now = RATE_LIMIT_WINDOW_MS
    /\ generationTimestamps = <<60000, RATE_LIMIT_WINDOW_MS>>
    /\ storage = StoredArray(generationTimestamps)

\* C14: in every reachable state, for any clock values, the timestamp log
\* is in ascending order, so that its first element, which the countdown
\* reads, is the entry that expires first.
C14_LogAscending ==
    /\ IsAscending(generationTimestamps)
    /\ generationTimestamps # <<>> =>
           \A v \in Elements(generationTimestamps) : generationTimestamps[1] <= v

\* C15: when the stored value is absent, is not parseable, is not an array
\* or is an array that holds values other than numbers, loadRateLimitData
\* yields the empty log and stores the empty log.
C15_BadStorageGivesEmptyLog ==
    [][(Loads /\ storage.kind # "array") =>
           /\ generationTimestamps' = <<>>
           /\ storage' = StoredArray(<<>>)]_vars

\* A step that is a click on the generate or on the regenerate button.
Requests == GenerateClick \/ RegenerateClick

\* C16: for every stored log and clock value a request is admitted if and
\* only if the stored log holds fewer than RATE_LIMIT_MAX_GENERATIONS
\* entries whose age is below the window; on admission the log becomes the
\* pruned, sorted log with the current time appended, is stored, and a run
\* starts; on denial the log is the pruned log, it holds the limit or more
\* active entries, and no run starts.
C16_AdmittedIffBelowLimit ==
    [][(Requests /\ storage.kind = "array") =>
           LET active == ActiveCount(storage.items, now)
               all == Elements(storage.items) \cup Elements(generationTimestamps')
                          \cup {now}
               kept(v) == IF (now - v) < RATE_LIMIT_WINDOW_MS
                          THEN Count(storage.items, v) ELSE 0
               n == Len(generationTimestamps')
           IN  IF active < RATE_LIMIT_MAX_GENERATIONS
               THEN /\ alertShown' # "quota"
                    /\ \E i \in Slots : Starts(i)
                    /\ n = active + 1
                    /\ generationTimestamps'[n] = now
                    /\ IsAscending(SubSeq(generationTimestamps', 1, n - 1))
                    /\ \A v \in all :
                           Count(generationTimestamps', v) =
                               kept(v) + (IF v = now THEN 1 ELSE 0)
                    /\ storage' = StoredArray(generationTimestamps')
               ELSE /\ alertShown' = "quota"
                    /\ \A i \in Slots : ~Starts(i)
                    /\ n = active
                    /\ IsAscending(generationTimestamps')
                    /\ \A v \in all : Count(generationTimestamps', v) = kept(v)
                    /\ ActiveCount(generationTimestamps', now)
                           >= RATE_LIMIT_MAX_GENERATIONS]_vars

\* Scenario C: the request made at 610000 on the scenario log was admitted
\* after the entry 0 had expired.
C16_Witness ==
    /\ now = 610000
    /\ generationTimestamps = <<60000, 120000, 180000, 240000, 610000>>
    /\ storage = StoredArray(generationTimestamps)
    /\ \E i \in Slots : sessions[i].pc = "awaitGenerate" /\ sessions[i].attempt = 1

\* Scenario B: the request made at 300000 on the scenario log was denied.
C16_ScenarioB ==
    /\ now = 300000
    /\ alertShown = "quota"
    /\ generationTimestamps = ScenarioLog

\* The edges of the status machine; a status that stays is no change.
Edge(a, b) ==
    \/ a = b
    \/ a = "idle" /\ b = "loading"
    \/ a = "loading" /\ b \in {"success", "failure", "terminating"}
    \/ a \in {"success", "failure", "terminating"} /\ b \in {"idle", "loading"}

\* C17: within one page the status changes along the defined edges only
\* (a job that starts a run passes through loading): no event moves it
\* from loading to idle, and success, failure and terminating are entered
\* from loading only.
C17_StatusFollowsEdges ==
    [][~PageLoad =>
           IF \E i \in Slots : Starts(i)
           THEN Edge(status, "loading") /\ Edge("loading", status')
           ELSE Edge(status, status')]_vars

\* C18: cancellation is sampled before each validation call as well: when
\* the flag is set while a generation call is in flight, the image the
\* call returns is not passed to the validation and does not become the
\* result of the run.
C18_CancelSampledBeforeValidation ==
    [][\A i \in Slots :
           LET s == sessions[i]
               t == sessions'[i]
           IN  (InFlight(s) /\ isGenerationTerminated) =>
                   /\ ~(s.pc = "awaitGenerate" /\ t.pc = "awaitVerify")
                   /\ ~(t.pc = "done" /\ t.success)
                   /\ successfulImageData' = successfulImageData]_vars

\* C19: the failure counter counts the failed generate runs.  A generate
\* run that ends in failure leaves the counter one above its value before
\* the run: the start of the run does not change it and its failure adds
\* one; a regenerate run that fails leaves it unchanged; a file upload and
\* a clear set it to zero; admission depends on the stored log only.
C19_CounterCountsFailedGenerates ==
    [][/\ \A i \in Slots :
              (Starts(i) /\ ~sessions'[i].isRegeneration) =>
                  failureCount' = failureCount
       /\ \A i \in Slots :
              (InFlight(sessions[i]) /\ sessions'[i].pc = "done"
                   /\ sessions'[i].finalStatus = "failure") =>
                  failureCount' = failureCount
                      + (IF sessions[i].isRegeneration THEN 0 ELSE 1)
       /\ (FileLoaded \/ ClearClick) => failureCount' = 0
       /\ (Requests /\ storage.kind = "array") =>
              (alertShown' = "quota" <=>
                   ActiveCount(storage.items, now) >= RATE_LIMIT_MAX_GENERATIONS)]_vars

\* The parts of C19 that do not involve the start of a generate run.
C19_CounterOtherwise ==
    [][/\ \A i \in Slots :
              (InFlight(sessions[i]) /\ sessions'[i].pc = "done"
                   /\ sessions'[i].finalStatus = "failure") =>
                  failureCount' = failureCount
                      + (IF sessions[i].isRegeneration THEN 0 ELSE 1)
       /\ \A i \in Slots :
              (InFlight(sessions[i]) /\ sessions'[i].pc # "done") =>
                  (failureCount' = failureCount \/ failureCount' = 0)
       /\ (FileLoaded \/ ClearClick) => failureCount' = 0
       /\ (Requests /\ storage.kind = "array") =>
              (alertShown' = "quota" <=>
                   ActiveCount(storage.items, now) >= RATE_LIMIT_MAX_GENERATIONS)]_vars

\* The first entry of the log has reached its expiry.
HeadExpired ==
    /\ generationTimestamps # <<>>
    /\ generationTimestamps[1] + RATE_LIMIT_WINDOW_MS <= now

\* C20: a tick that finds the first entry expired stops the interval and
\* asks for a reload; the reload removes every expired entry and restarts
\* the interval exactly when entries remain; an expired first entry is
\* eventually removed; with an advancing clock and no admission the log
\* ends up empty with no interval and no reload pending.
C20_CountdownExpires ==
    /\ [][/\ (RateLimitTick /\ HeadExpired) =>
                 /\ ~rateLimitTimerInterval'
                 /\ pendingReloads' = pendingReloads + 1
                 /\ generationTimestamps' = generationTimestamps
          /\ ReloadTimeout =>
                 /\ \A v \in Elements(generationTimestamps') :
                        (now - v) < RATE_LIMIT_WINDOW_MS
                 /\ rateLimitTimerInterval' = (generationTimestamps' # <<>>)]_vars
    /\ [](HeadExpired => <>(~HeadExpired))
    /\ <>[](/\ generationTimestamps = <<>>
            /\ ~rateLimitTimerInterval
            /\ pendingReloads = 0)

\* The countdown has reported the expiry of the first of several entries:
\* the interval is stopped and the reload is pending.
C20_Witness ==
    /\ HeadExpired
    /\ Len(generationTimestamps) >= 2
    /\ ~rateLimitTimerInterval
    /\ pendingReloads = 1

\* C21: a regenerate run leaves successfulImageData alone: the click that
\* starts it and every settling of its remote calls keep the stored image,
\* also when the run returns failure or terminating; only the step in
\* which the run returns success replaces it, by the image of that run.
C21_RegenerateKeepsPriorResult ==
    [][/\ RegenerateClick => successfulImageData' = successfulImageData
       /\ \A i \in Slots :
              (Starts(i) /\ sessions'[i].isRegeneration) =>
                  successfulImageData' = successfulImageData
       /\ \A i \in Slots :
              (Settles(i) /\ sessions[i].isRegeneration) =>
                  IF sessions'[i].pc = "done" /\ sessions'[i].finalStatus = "success"
                  THEN /\ successfulImageData' = sessions'[i].successfulBase64Data
                       /\ successfulImageData' # successfulImageData
                  ELSE successfulImageData' = successfulImageData]_vars

\* A regenerate run has just returned failure after MAX_ATTEMPTS calls, and
\* the image of the earlier success is still stored.
C21_Witness ==
    \E i \in Slots :
        /\ sessions[i].pc = "done"
        /\ sessions[i].isRegeneration
        /\ sessions[i].finalStatus = "failure"
        /\ sessions[i].genCalls = MAX_ATTEMPTS
        /\ successfulImageData # NoImage

\* C22: after every admission decision (a click on generate or regenerate,
\* admitted or denied) and after every return of a run (success, failure
\* or terminating, generate and regenerate alike) the usage count on
\* display equals the length of the timestamp log; after the return of a
\* generate run the generate button is moreover as updateUsageDisplay
\* leaves it.
C22_UsageDisplayCurrent ==
    [][/\ Requests => usageCount' = Len(generationTimestamps')
       /\ \A i \in Slots :
              (sessions'[i].pc = "done" /\ sessions'[i] # sessions[i]) =>
                  /\ sessions'[i].finalStatus \in {"success", "failure", "terminating"}
                  /\ usageCount' = Len(generationTimestamps')
                  /\ ~sessions'[i].isRegeneration =>
                         generateButtonDisabled' =
                             (Len(generationTimestamps') >= RATE_LIMIT_MAX_GENERATIONS
                                  \/ uploadedBase64Image' = NoImage)]_vars

\* A regenerate run has just returned terminating while the log holds
\* several entries, all of them on display.
C22_Witness ==
    \E i \in Slots :
        /\ sessions[i].pc = "done"
        /\ sessions[i].isRegeneration
        /\ sessions[i].finalStatus = "terminating"
        /\ Len(generationTimestamps) >= 2
        /\ usageCount = Len(generationTimestamps)

\* The log in memory is the one saveTimestamps persisted.
Persisted == storage = StoredArray(generationTimestamps)

\* No entry of the log has reached the age of the window.
NoneExpired ==
    \A k \in 1..Len(generationTimestamps) :
        (now - generationTimestamps[k]) < RATE_LIMIT_WINDOW_MS

\* A load that follows the persisting of a log of zero, one or five
\* entries, at a clock value where none of them has expired.
RoundTrip ==
    /\ Loads
    /\ Persisted
    /\ NoneExpired
    /\ Len(generationTimestamps) \in {0, 1, RATE_LIMIT_MAX_GENERATIONS}

GenerateSettles ==
    \E i \in Slots, resp \in {"error", "empty", "image"} : GenerateResponds(i, resp)

VerifySettles ==
    \E i \in Slots, resp \in {"YES", "NO", "error"} : VerifyResponds(i, resp)

\* One page that stays loaded, at one clock value: the user uploads photos,
\* switches the cartoon mode, asks for generations one at a time and
\* terminates them; every remote call that was made settles in the end.
NextSession ==
    \/ FileLoaded
    \/ CartoonChange
    \/ Quiet /\ GenerateClick
    \/ Quiet /\ RegenerateClick
    \/ TerminateClick
    \/ GenerateSettles
    \/ VerifySettles

\* The page is constructed at clock value 0 over a stored log that leaves
\* room for two requests.
InitSession == Constructed(StoredArray(<<0, 0, 0>>), 0)

SpecSession ==
    /\ InitSession
    /\ [][NextSession]_vars
    /\ WF_vars(GenerateSettles)
    /\ WF_vars(VerifySettles)

\* The run in slot i has returned and its outcome is on display.
Returned(i) ==
    /\ sessions[i].pc = "done"
    /\ sessions[i].finalStatus \in {"success", "failure", "terminating"}
    /\ status = sessions[i].finalStatus

\* C24: a run of generateSingleView that is suspended at a remote call
\* leaves that state only by going on to its next call or by returning,
\* whatever the call answers (errors included); it makes at most
\* MAX_ATTEMPTS generation calls and at most MAX_ATTEMPTS validation calls;
\* and when every call settles it eventually returns with the status
\* success, failure or terminating.
C24_SessionTerminates ==
    /\ [][\A i \in Slots :
              /\ InFlight(sessions[i]) =>
                     (InFlight(sessions'[i]) \/ sessions'[i].pc = "done")
              /\ sessions'[i].genCalls <= MAX_ATTEMPTS
              /\ sessions'[i].verifyCalls <= MAX_ATTEMPTS]_vars
    /\ \A i \in Slots : InFlight(sessions[i]) ~> Returned(i)

\* A run has returned failure after MAX_ATTEMPTS generation calls, each
\* followed by a validation call that did not accept the image.
C24_Witness ==
    \E i \in Slots :
        /\ Returned(i)
        /\ sessions[i].finalStatus = "failure"
        /\ sessions[i].genCalls = MAX_ATTEMPTS
        /\ sessions[i].verifyCalls = MAX_ATTEMPTS

\* C25: stopRateLimitTimer applied twice gives what it gives applied once,
\* changes nothing when no interval is active and leaves none active;
\* startRateLimitTimer leaves at most one active; in every state at most
\* one countdown interval is active, it is the one the handle names, and
\* none is active while the log is empty.
C25_AtMostOneInterval ==
    /\ stopRateLimitTimer(stopRateLimitTimer(State)) = stopRateLimitTimer(State)
    /\ ~rateLimitTimerInterval => stopRateLimitTimer(State) = State
    /\ stopRateLimitTimer(State).activeIntervals = 0
    /\ startRateLimitTimer(State, now).activeIntervals <= 1
    /\ activeIntervals \in {0, 1}
    /\ rateLimitTimerInterval <=> activeIntervals = 1
    /\ generationTimestamps = <<>> => activeIntervals = 0

\* A request was admitted on a log that was not empty: the countdown that
\* was running has been replaced, one interval is active and the run is in
\* flight.
C25_Witness ==
    /\ Len(generationTimestamps) >= 2
    /\ activeIntervals = 1
    /\ rateLimitTimerInterval
    /\ \E i \in Slots : InFlight(sessions[i])

\* C26: successfulImageData is set to an image only in the step in which a
\* run returns success, and then to the image of that run's last
\* generation call: either the candidate the validation call has just
\* answered YES for, or the image a generation call has just returned
\* while cartoon mode is on.
C26_OnlyAcceptedStored ==
    [][(successfulImageData' # successfulImageData
            /\ successfulImageData' # NoImage) =>
           \E i \in Slots :
               /\ InFlight(sessions[i])
               /\ sessions'[i].pc = "done"
               /\ sessions'[i].finalStatus = "success"
               /\ successfulImageData' = sessions'[i].successfulBase64Data
               /\ \/ /\ sessions[i].pc = "awaitVerify"
                     /\ sessions'[i].lastResponse = "YES"
                     /\ successfulImageData' = sessions[i].base64Data
                  \/ /\ sessions[i].pc = "awaitGenerate"
                     /\ sessions'[i].lastResponse = "image"
                     /\ isCartoonMode
                     /\ successfulImageData' = FreshImage(Entering(State))]_vars

\* A run has stored the image of its third generation call, the first one
\* the validation accepted.
C26_Witness ==
    \E i \in Slots :
        /\ sessions[i].pc = "done"
        /\ sessions[i].finalStatus = "success"
        /\ sessions[i].lastResponse = "YES"
        /\ sessions[i].genCalls = 3
        /\ sessions[i].verifyCalls = 3
        /\ successfulImageData # NoImage
        /\ successfulImageData = sessions[i].successfulBase64Data

\* C27: a click on clear (resetUI) and the reading of an uploaded file
\* (handleFile) change neither the timestamp log, nor its persisted copy,
\* nor the count on display; an entry leaves the log only in a step that
\* runs loadRateLimitData, and only when its age has reached the window.
C27_ResetKeepsQuota ==
    [][/\ (ClearClick \/ FileLoaded) =>
              /\ generationTimestamps' = generationTimestamps
              /\ storage' = storage
              /\ usageCount' = usageCount
       /\ \A v \in Times :
              Count(generationTimestamps', v) < Count(generationTimestamps, v) =>
                  /\ Loads \/ Requests
                  /\ (now - v) >= RATE_LIMIT_WINDOW_MS]_vars

\* The page was cleared while a run was in flight: no photo, status idle,
\* and the log and its persisted copy still hold the consumed quota.
C27_Witness ==
    /\ \E i \in Slots : InFlight(sessions[i])
    /\ status = "idle"
    /\ uploadedBase64Image = NoImage
    /\ Len(generationTimestamps) >= 2
    /\ storage = StoredArray(generationTimestamps)
    /\ usageCount = Len(generationTimestamps)

====
